---- MODULE Spec2Model ----
(***************************************************************************)
(* The staged minibatch loader of loader.hpp as a state machine:           *)
(*   reader thread --readPool--> decode manager + N workers                *)
(*                 --decodePool / device slots--> trainer (next()).        *)
(* Threads: the read thread (rpc), the decode manager (mpc), the decode    *)
(* workers (wpc[id]) and the calling thread of the Loader facade (tpc).    *)
(*                                                                         *)
(* Granularity.  A critical section of a std::mutex is one action unless   *)
(* the thread blocks inside it; a condition-variable wait is a pc value    *)
(* ("..._wait") that only a notify leaves (no spurious wakeups).  The       *)
(* unlocked accesses of Loader::stop and DecodeThreadPool::stop            *)
(* (empty(), advanceWritePos(), _endSignaled++) are separate steps; a      *)
(* racing read-modify-write is a read step and a write step, so that a     *)
(* lost update is one of the outcomes.                                     *)
(***************************************************************************)
EXTENDS Integers, FiniteSets, Sequences, TLC

\* ---------------------------------------------------------------- bounds
BatchSize == 2     \* the batchSize the Loader is constructed with
MaxCores == 2      \* thread::hardware_concurrency() ranges over 1..MaxCores
NumBatches == 3    \* minibatches in the data set; the reader wraps around
MaxUsed == 4       \* BufferPool::_used is not counted beyond this value
MaxEnd == 3        \* _endSignaled is not counted beyond this value
PartMaxBatch == 6  \* batch sizes handed directly to DecodeThreadPool
PartMaxCount == 4  \* worker counts handed directly to DecodeThreadPool
MaxTargetLen == 1  \* target slot lengths; encoded targets are up to 1 longer
MaxFailAt == 2     \* the reader may fail on its 1st .. MaxFailAt-th read
MaxItemLen == 3    \* decoded datum and target lengths in bytes, 1 .. MaxItemLen

\* BufferPool's default number of slots (S).
PoolCount == 2

Min(a, b) == IF a < b THEN a ELSE b

VARIABLES
    poolCount,       \* S, the slot count both pools are built with
    numCores,        \* thread::hardware_concurrency()
    _batchSize,      \* Loader::_batchSize
    allocFailAt,     \* which allocation of start() throws bad_alloc (0: none)
    deviceInit,      \* what Device::init() returns
    readFailAt,      \* which Reader::read returns -1 (0: none)
    _targetLen,      \* DecodeThreadPool::_targetLen
    _targetConversion, \* DecodeThreadPool::_targetConversion
    encTargetLens,   \* encoded target length of each item of the input
    _first,          \* Loader::_first
    _readBufs,       \* Loader::_readBufs (a BufferPool, or NoPool when null)
    _decodeBufs,     \* Loader::_decodeBufs
    _readThread,     \* Loader::_readThread (ThreadPool fields of ReadThread)
    _decodeThreads,  \* Loader::_decodeThreads (DecodeThreadPool fields)
    _device,         \* the two device slots
    _reader,         \* the Reader's position in the data set
    inMutex,         \* owner of _readBufs' mutex
    outMutex,        \* owner of _decodeBufs' mutex
    rpc,             \* read thread
    mpc,             \* decode manager thread
    wpc,             \* decode worker threads
    tpc,             \* the thread calling the Loader
    mreg,            \* manager's register while it rewrites _in._used
    treg,            \* caller's register while it rewrites a racy counter
    inReset,         \* the caller is inside Loader::reset()
    nextCount,       \* history: returns of next() since start(), mod 2*NumBatches
    afterReset,      \* history: reset() has been called
    acks,            \* history: workers that raised _endSignaled this round
    takes,           \* history: start signals each worker took this round
    metaBuf,         \* the meta buffer transform() writes (2 * batchSize ints)
    inFlight,        \* history: minibatches read and not yet released
    lifetime         \* history: "ok", or the first misuse of an owned object

vars == <<poolCount, numCores, _batchSize, allocFailAt, deviceInit,
          readFailAt, _targetLen, _targetConversion, encTargetLens, _first, _readBufs, _decodeBufs,
          _readThread, _decodeThreads, _device, _reader, inMutex, outMutex,
          rpc, mpc, wpc, tpc, mreg, treg, inReset, nextCount, afterReset,
          acks, takes, metaBuf, inFlight, lifetime>>

cfgVars == <<poolCount, numCores, _batchSize, allocFailAt, deviceInit,
            readFailAt, _targetLen, _targetConversion, encTargetLens>>
histVars == <<afterReset, acks, takes>>
auxVars == <<metaBuf, inFlight, lifetime>>

\* ------------------------------------------------------------ buffers
\* A read-pool slot holds one encoded minibatch: the data-set index it was
\* read from (id), or -1 for bytes that are no minibatch of the data set as
\* it is read now (uninitialised memory, or read before Reader::reset()).
NoBatch == [id |-> -1]
\* One decoded item of a decode-pool or device slot, with the layout of the
\* buffer around it: "item" (item-major, as the workers write it), "elem"
\* (element-major, after Matrix::transpose) or "none" (never written, or
\* scrambled by transposing an already transposed region).
NoItem == [id |-> -1, layout |-> "none"]
Items(batchSize) == 0 .. (batchSize - 1)
EmptySlot(batchSize) == [i \in Items(batchSize) |-> NoItem]

\* Matrix::transpose on a whole decoded buffer.
Transpose(slot) ==
    [i \in DOMAIN slot |->
        IF slot[i].layout = "item" THEN [slot[i] EXCEPT !.layout = "elem"]
        ELSE NoItem]

\* The slot holds exactly minibatch id, decoded for every item and
\* transposed once.
HoldsBatch(slot, id) ==
    \A i \in DOMAIN slot : slot[i] = [id |-> id, layout |-> "elem"]

\* ----------------------------------------------------------- BufferPool
NoPool == [alive |-> FALSE, _count |-> 0, _used |-> 0,
           _readPos |-> 0, _writePos |-> 0, _bufs |-> << >>]
NewBufferPool(count, slot) ==
    [alive |-> TRUE, _count |-> count, _used |-> 0,
     _readPos |-> 0, _writePos |-> 0, _bufs |-> [i \in 0 .. (count - 1) |-> slot]]
empty(p) == p._used = 0
full(p) == p._used = p._count
advance(pos, p) == (pos + 1) % p._count
advanceWritePos(p) ==
    [p EXCEPT !._used = Min(@ + 1, MaxUsed), !._writePos = advance(@, p)]
advanceReadPos(p) ==
    [p EXCEPT !._used = @ - 1, !._readPos = advance(@, p)]
\* The same two with _used written from a value read earlier (the racing
\* read-modify-write of an unlocked caller, or of one it races with).
advanceWritePosFrom(p, used) ==
    [p EXCEPT !._used = Min(used + 1, MaxUsed), !._writePos = advance(@, p)]
advanceReadPosFrom(p, used) ==
    [p EXCEPT !._used = used - 1, !._readPos = advance(@, p)]
getForWrite(p) == p._bufs[p._writePos]
getForRead(p) == p._bufs[p._readPos]
putForWrite(p, slot) == [p EXCEPT !._bufs[p._writePos] = slot]

\* notify on a condition variable with at most one waiter: the waiter's pc
\* moves from the wait to the re-acquisition of the mutex.
Notify(pc, waiting, woken) == IF pc = waiting THEN woken ELSE pc

\* ---------------------------------------------------------------- Reader
\* Reader::read: the next minibatch of the data set.
ReaderRead(r) == [id |-> r.pos]
ReaderAdvance(r) == [r EXCEPT !.pos = (@ + 1) % NumBatches]
\* Reader::reset: rewind to the first minibatch.
ReaderReset(r) == [r EXCEPT !.pos = 0]
\* What a slot holds of the data set as it is read after a Reader::reset():
\* nothing; the bytes left in it were read before the reset.
Outdated(slot) == [i \in DOMAIN slot |-> NoItem]

\* ------------------------------------------------------ DecodeThreadPool
ItemsPerThread(batchSize, count) == (batchSize - 1) \div count + 1
CtorAsserts(count, batchSize) ==
    /\ ItemsPerThread(batchSize, count) * count >= batchSize
    /\ ItemsPerThread(batchSize, count) * (count - 1) < batchSize
Ids(count) == 0 .. (count - 1)
NoThreads == [alive |-> FALSE, _count |-> 0, _itemsPerThread |-> 0,
              _batchSize |-> 0, _done |-> FALSE, _stopped |-> << >>,
              _startSignaled |-> << >>, _endSignaled |-> 0,
              _stopManager |-> FALSE, _managerStopped |-> FALSE,
              _inputBuf |-> -1, _bufferIndex |-> 0,
              _startInds |-> << >>, _endInds |-> << >>]
NewDecodeThreadPool(count, batchSize) ==
    [alive |-> TRUE, _count |-> count,
     _itemsPerThread |-> ItemsPerThread(batchSize, count),
     _batchSize |-> batchSize, _done |-> FALSE,
     _stopped |-> [i \in Ids(count) |-> FALSE],
     _startSignaled |-> [i \in Ids(count) |-> 0], _endSignaled |-> 0,
     _stopManager |-> FALSE, _managerStopped |-> FALSE,
     _inputBuf |-> -1, _bufferIndex |-> 0,
     _startInds |-> [i \in Ids(count) |-> 0],
     _endInds |-> [i \in Ids(count) |-> 0]]
\* ThreadPool::stopped(): every worker has set its flag.
stopped(tp) == \A i \in DOMAIN tp._stopped : tp._stopped[i]

\* The item range worker id computes at the top of run().
StartInd(id, tp) == id * tp._itemsPerThread
\* Variant of ItemCount without the last worker's remainder (C10).
ItemCountNoRemainder(id, tp) == tp._itemsPerThread
ItemCount(id, tp) ==
    IF id = tp._count - 1 THEN tp._batchSize - id * tp._itemsPerThread
    ELSE tp._itemsPerThread
EndInd(id, tp) == StartInd(id, tp) + ItemCount(id, tp)

\* ------------------------------------------------------------ ReadThread
NoReadThread == [alive |-> FALSE, _done |-> FALSE, _stopped |-> FALSE]
NewReadThread == [alive |-> TRUE, _done |-> FALSE, _stopped |-> FALSE]

\* ---------------------------------------------------------------- Loader
\* Variant of ThreadCount that hands over the items per thread (C15).
ThreadCountAsItems(batchSize, cores) ==
    Min(ItemsPerThread(batchSize, cores), batchSize)
\* The worker count Loader::start() hands to DecodeThreadPool.
ThreadCount(batchSize, cores) ==
    Min((batchSize - 1) \div ItemsPerThread(batchSize, cores) + 1, batchSize)

Workers == DOMAIN wpc
\* The device slot and the data-set index of the minibatch the latest
\* return of next() delivered (calls are counted from 0).
HeldSlot == (nextCount + 1) % 2
Expected == (nextCount + 2 * NumBatches - 1) % NumBatches

\* No allocation, device or reader failure is going to happen.
NoFault == allocFailAt = 0 /\ deviceInit = 0 /\ readFailAt = 0
\* The targets are decoded with the data (READ_CONTENTS); no raw target
\* lengths are tracked.
JointDecode ==
    /\ _targetLen = 0
    /\ _targetConversion = "READ_CONTENTS"
    /\ encTargetLens = << >>
    /\ metaBuf = << >>

\* State after the Loader's constructor: nothing started.
Constructed ==
    /\ _first = TRUE
    /\ _readBufs = NoPool
    /\ _decodeBufs = NoPool
    /\ _readThread = NoReadThread
    /\ _decodeThreads = NoThreads
    /\ _device = [s \in 0 .. 1 |-> EmptySlot(_batchSize)]
    /\ _reader = [pos |-> 0]
    /\ inMutex = "none"
    /\ outMutex = "none"
    /\ rpc = "none"
    /\ mpc = "none"
    /\ wpc = << >>
    /\ tpc = "constructed"
    /\ mreg = 0
    /\ treg = 0
    /\ inReset = FALSE
    /\ nextCount = 0
    /\ afterReset = FALSE
    /\ acks = {}
    /\ takes = << >>
    /\ inFlight = 0
    /\ lifetime = "ok"

InitWith(caps) ==
    /\ poolCount \in caps
    /\ NoFault
    /\ JointDecode
    /\ numCores \in 1 .. MaxCores
    /\ _batchSize = BatchSize
    /\ Constructed

Init == InitWith({PoolCount})

\* ------------------------------------------------------- Loader::start
\* History: one more minibatch read, one more released by the trainer.
ReadOneMore(n) == Min(n + 1, 2 * poolCount + 1)
ReleasedOneMore(n) == IF n > 0 THEN n - 1 ELSE 0

\* The k-th allocation of start() is reached and succeeds.
StartAllocated(k) == allocFailAt = 0 \/ k < allocFailAt

\* start(): _first = true; the four allocations in their order, each handle
\* assigned as soon as its object exists; std::bad_alloc is caught and
\* start() returns -1; otherwise the threads are started.
Start ==
    /\ tpc \in {"constructed", "reset_start"}
    /\ _first' = TRUE
    /\ LET threadCount == ThreadCount(_batchSize, numCores) IN
       IF allocFailAt # 0
       THEN /\ _readBufs' = IF StartAllocated(1)
                            THEN NewBufferPool(poolCount, NoBatch)
                            ELSE _readBufs
            /\ _readThread' = IF StartAllocated(2) THEN NewReadThread
                              ELSE _readThread
            /\ _decodeBufs' = IF StartAllocated(3)
                              THEN NewBufferPool(poolCount, EmptySlot(_batchSize))
                              ELSE _decodeBufs
            /\ tpc' = "start_failed"
            /\ UNCHANGED <<_decodeThreads, wpc, takes, rpc, mpc>>
       ELSE IF CtorAsserts(threadCount, _batchSize)
       THEN /\ _readBufs' = NewBufferPool(poolCount, NoBatch)
            /\ _decodeBufs' = NewBufferPool(poolCount, EmptySlot(_batchSize))
            /\ _readThread' = NewReadThread
            /\ _decodeThreads' = NewDecodeThreadPool(threadCount, _batchSize)
            /\ wpc' = [i \in Ids(threadCount) |-> "run_init"]
            /\ takes' = [i \in Ids(threadCount) |-> 0]
            /\ rpc' = "run"
            /\ mpc' = "manage_init"
            /\ tpc' = "idle"
       ELSE /\ tpc' = "aborted"
            /\ UNCHANGED <<_readBufs, _decodeBufs, _readThread,
                           _decodeThreads, wpc, takes, rpc, mpc>>
    /\ inReset' = FALSE
    /\ nextCount' = 0
    /\ acks' = {}
    /\ inFlight' = 0
    /\ lifetime' =
           IF lifetime # "ok" THEN lifetime
           ELSE IF \/ StartAllocated(1) /\ _readBufs.alive
                   \/ StartAllocated(2) /\ _readThread.alive
                   \/ StartAllocated(3) /\ _decodeBufs.alive
                   \/ StartAllocated(4) /\ _decodeThreads.alive
                THEN "leak"
           ELSE "ok"
    /\ UNCHANGED <<cfgVars, metaBuf, _device, _reader, inMutex, outMutex,
                   mreg, treg, afterReset>>

\* ---------------------------------------------------------- ReadThread
\* ThreadPool::run: while (_done == false) work(id); _stopped[id] = true.
ReadRun ==
    /\ rpc = "run"
    /\ IF _readThread._done
       THEN /\ _readThread' = [_readThread EXCEPT !._stopped = TRUE]
            /\ rpc' = "stopped"
       ELSE /\ rpc' = "produce"
            /\ UNCHANGED _readThread
    /\ UNCHANGED <<cfgVars, auxVars, histVars, _first, _readBufs, _decodeBufs,
                   _decodeThreads, _device, _reader, inMutex, outMutex,
                   mpc, wpc, tpc, mreg, treg, inReset, nextCount>>

\* Variant of ReadMustWait that never waits for a free slot (C19).
ReadNeverWaits(out) == FALSE
\* ReadThread::produce() may not fill the write slot while this holds.
ReadMustWait(out) == full(out)

\* produce(): take the pool's mutex; while full, wait for nonFull.
ReadProduceLock ==
    /\ rpc = "produce"
    /\ inMutex = "none"
    /\ IF ReadMustWait(_readBufs)
       THEN /\ rpc' = "nonfull_wait"
            /\ UNCHANGED inMutex
       ELSE /\ rpc' = "read"
            /\ inMutex' = "reader"
    /\ UNCHANGED <<cfgVars, auxVars, histVars, _first, _readBufs, _decodeBufs,
                   _readThread, _decodeThreads, _device, _reader, outMutex,
                   mpc, wpc, tpc, mreg, treg, inReset, nextCount>>

\* Reader::read returns -1 for the minibatch at position readFailAt - 1.
ReadFails(r) == readFailAt # 0 /\ r.pos = readFailAt - 1

\* produce(): reader->read into the write slot, advanceWritePos, unlock,
\* _out.signalNonEmpty(); then back to the loop of run(). When the read
\* returns -1: _done = true and std::runtime_error is thrown, the mutex is
\* released by the unwinding and the slot is not published; the exception
\* leaves work(), and either the thread function ends with the thread
\* marked stopped or the exception is not caught and the process ends.
ReadProduceRead ==
    /\ rpc = "read"
    /\ inMutex' = "none"
    /\ IF ReadFails(_reader)
       THEN /\ \/ /\ _readThread' = [_readThread EXCEPT !._done = TRUE,
                                                          !._stopped = TRUE]
                  /\ rpc' = "stopped"
                  /\ UNCHANGED <<mpc, wpc, tpc>>
               \/ /\ _readThread' = [_readThread EXCEPT !._done = TRUE]
                  /\ rpc' = "terminated"
                  /\ mpc' = "terminated"
                  /\ wpc' = [i \in DOMAIN wpc |-> "terminated"]
                  /\ tpc' = "terminated"
            /\ UNCHANGED <<_readBufs, _reader, inFlight>>
       ELSE /\ _readBufs' =
                   advanceWritePos(putForWrite(_readBufs, ReaderRead(_reader)))
            /\ _reader' = ReaderAdvance(_reader)
            /\ mpc' = Notify(mpc, "nonempty_wait", "nonempty_woken")
            /\ rpc' = "run"
            /\ inFlight' = ReadOneMore(inFlight)
            /\ UNCHANGED <<_readThread, wpc, tpc>>
    /\ UNCHANGED <<cfgVars, metaBuf, lifetime, histVars, _first, _decodeBufs,
                   _decodeThreads, _device, outMutex, mreg, treg, inReset,
                   nextCount>>

\* --------------------------------------------------------- Loader::next
NextCall ==
    /\ tpc = "idle"
    /\ tpc' = "next_lock"
    /\ UNCHANGED <<cfgVars, auxVars, histVars, _first, _readBufs, _decodeBufs,
                   _readThread, _decodeThreads, _device, _reader, inMutex,
                   outMutex, rpc, mpc, wpc, mreg, treg, inReset, nextCount>>

\* The minibatch released by a call of next() that is not the first.
NextRelease(first, out) == IF first THEN out ELSE advanceReadPos(out)

\* Variant of NextSignalNonFull in which the signal is not sent (C5).
NextSignalDropped(pc) == pc
\* next(): _decodeBufs->signalNonFull() after the release.
NextSignalNonFull(pc) == Notify(pc, "out_nonfull_wait", "produce")

\* next(): under the decode pool's mutex release the previous minibatch
\* (advanceReadPos, signalNonFull), then return or wait for nonEmpty.
NextLock ==
    /\ tpc = "next_lock"
    /\ outMutex = "none"
    /\ _decodeBufs' = NextRelease(_first, _decodeBufs)
    /\ mpc' = IF _first THEN mpc ELSE NextSignalNonFull(mpc)
    /\ _first' = FALSE
    /\ IF empty(_decodeBufs')
       THEN /\ tpc' = "next_wait"
            /\ UNCHANGED nextCount
       ELSE /\ tpc' = "idle"
            /\ nextCount' = (nextCount + 1) % (2 * NumBatches)
    /\ inFlight' = IF _first THEN inFlight ELSE ReleasedOneMore(inFlight)
    /\ UNCHANGED <<cfgVars, metaBuf, lifetime, histVars, _readBufs,
                   _readThread, _decodeThreads, _device, _reader, inMutex,
                   outMutex, rpc, wpc, mreg, treg, inReset>>

\* next(): woken from waitForNonEmpty, re-check empty().
NextWoken ==
    /\ tpc = "next_woken"
    /\ outMutex = "none"
    /\ IF empty(_decodeBufs)
       THEN /\ tpc' = "next_wait"
            /\ UNCHANGED nextCount
       ELSE /\ tpc' = "idle"
            /\ nextCount' = (nextCount + 1) % (2 * NumBatches)
    /\ UNCHANGED <<cfgVars, auxVars, histVars, _first, _readBufs, _decodeBufs,
                   _readThread, _decodeThreads, _device, _reader, inMutex,
                   outMutex, rpc, mpc, wpc, mreg, treg, inReset>>

\* --------------------------------------------- DecodeThreadPool::manage
\* manage(): result = _device->init(); if (result != 0) _stopManager = true.
ManageInit ==
    /\ mpc = "manage_init"
    /\ _decodeThreads' =
           IF deviceInit # 0
           THEN [_decodeThreads EXCEPT !._stopManager = TRUE]
           ELSE _decodeThreads
    /\ mpc' = "manage"
    /\ UNCHANGED <<cfgVars, auxVars, histVars, _first, _readBufs, _decodeBufs,
                   _readThread, _device, _reader, inMutex, outMutex, rpc,
                   wpc, tpc, mreg, treg, inReset, nextCount>>

\* manage(): while (_stopManager == false) consume(); _managerStopped = true.
Manage ==
    /\ mpc = "manage"
    /\ IF _decodeThreads._stopManager
       THEN /\ _decodeThreads' = [_decodeThreads EXCEPT !._managerStopped = TRUE]
            /\ mpc' = "stopped"
       ELSE /\ mpc' = "consume"
            /\ UNCHANGED _decodeThreads
    /\ UNCHANGED <<cfgVars, auxVars, histVars, _first, _readBufs, _decodeBufs,
                   _readThread, _device, _reader, inMutex, outMutex, rpc,
                   wpc, tpc, mreg, treg, inReset, nextCount>>

\* Variant of ConsumeInput that pins the slot at the write cursor (C1).
ConsumeInputAtWritePos(in) == in._writePos
\* The read-pool slot consume() hands to the workers: &_in.getForRead().
ConsumeInput(in) == in._readPos

\* consume(): the loop "while (_in.empty()) waitForNonEmpty" under _in's
\* mutex, then _inputBuf = &_in.getForRead(); the mutex stays held.
ConsumeEnter ==
    IF empty(_readBufs)
    THEN /\ mpc' = "nonempty_wait"
         /\ UNCHANGED <<inMutex, _decodeThreads>>
    ELSE /\ mpc' = "produce"
         /\ inMutex' = "manager"
         /\ _decodeThreads' =
                [_decodeThreads EXCEPT !._inputBuf = ConsumeInput(_readBufs)]

ConsumeLock ==
    /\ mpc = "consume"
    /\ inMutex = "none"
    /\ ConsumeEnter
    /\ UNCHANGED <<cfgVars, auxVars, histVars, _first, _readBufs, _decodeBufs,
                   _readThread, _device, _reader, outMutex, rpc, wpc, tpc,
                   mreg, treg, inReset, nextCount>>

\* consume(): woken from waitForNonEmpty: return if _stopManager, else
\* re-check empty().
ConsumeWoken ==
    /\ mpc = "nonempty_woken"
    /\ inMutex = "none"
    /\ IF _decodeThreads._stopManager
       THEN /\ mpc' = "manage"
            /\ UNCHANGED <<inMutex, _decodeThreads>>
       ELSE ConsumeEnter
    /\ UNCHANGED <<cfgVars, auxVars, histVars, _first, _readBufs, _decodeBufs,
                   _readThread, _device, _reader, outMutex, rpc, wpc, tpc,
                   mreg, treg, inReset, nextCount>>

\* Variant of ProduceMustWait that never waits for a free slot (C3).
ProduceNeverWaits(out) == FALSE
\* produce() may not start on the write slot while this holds.
ProduceMustWait(out) == full(out)

\* produce(): take _out's mutex; while full, wait for nonFull; then set
\* every _startSignaled[i] = 1 and _started.notify_all().
ProduceLock ==
    /\ mpc = "produce"
    /\ outMutex = "none"
    /\ IF ProduceMustWait(_decodeBufs)
       THEN /\ mpc' = "out_nonfull_wait"
            /\ UNCHANGED <<outMutex, _decodeThreads, wpc, acks>>
       ELSE /\ mpc' = "ended_check"
            /\ outMutex' = "manager"
            /\ _decodeThreads' =
                   [_decodeThreads EXCEPT
                       !._startSignaled = [i \in DOMAIN @ |-> 1]]
            /\ wpc' = [i \in Workers |->
                          Notify(wpc[i], "started_wait", "started_woken")]
            /\ acks' = {}
    /\ UNCHANGED <<cfgVars, auxVars, afterReset, takes, _first, _readBufs, _decodeBufs,
                   _readThread, _device, _reader, inMutex, rpc, tpc, mreg,
                   treg, inReset, nextCount>>

\* Variant of RoundEnded that is one completion short (C2).
RoundEndedEarly(tp) == ~(tp._endSignaled < tp._count - 1)
\* The manager may leave the wait on _ended.
RoundEnded(tp) == ~(tp._endSignaled < tp._count)

\* Variant of EndReset that leaves the counter as it is (C21).
EndResetSkipped(n) == n
\* produce(): _endSignaled = 0 once the wait on _ended is over.
EndReset(n) == 0

\* produce(): while (_endSignaled < _count) _ended.wait; _endSignaled = 0.
ProduceEnded ==
    /\ mpc = "ended_check"
    /\ IF RoundEnded(_decodeThreads)
       THEN /\ mpc' = "copy"
            /\ _decodeThreads' =
                   [_decodeThreads EXCEPT !._endSignaled = EndReset(@)]
            /\ takes' = [i \in DOMAIN takes |-> 0]
       ELSE /\ mpc' = "ended_wait"
            /\ UNCHANGED <<_decodeThreads, takes>>
    /\ UNCHANGED <<cfgVars, auxVars, afterReset, acks, _first, _readBufs, _decodeBufs,
                   _readThread, _device, _reader, inMutex, outMutex, rpc,
                   wpc, tpc, mreg, treg, inReset, nextCount>>

\* Variant of FlipBufferIndex that keeps the index (C9).
KeepBufferIndex(b) == b
\* _bufferIndex = (_bufferIndex == 0) ? 1 : 0
FlipBufferIndex(b) == IF b = 0 THEN 1 ELSE 0

\* produce(): transpose the write slot, copy it to device slot
\* _bufferIndex, flip _bufferIndex.
ProduceCopy ==
    /\ mpc = "copy"
    /\ LET slot == Transpose(getForWrite(_decodeBufs)) IN
        /\ _decodeBufs' = putForWrite(_decodeBufs, slot)
        /\ _device' = [_device EXCEPT ![_decodeThreads._bufferIndex] = slot]
    /\ _decodeThreads' =
           [_decodeThreads EXCEPT !._bufferIndex = FlipBufferIndex(@)]
    /\ mpc' = "publish"
    /\ UNCHANGED <<cfgVars, auxVars, histVars, _first, _readBufs, _readThread, _reader,
                   inMutex, outMutex, rpc, wpc, tpc, mreg, treg, inReset,
                   nextCount>>

\* produce(): _out.advanceWritePos(), release of _out's mutex,
\* _out.signalNonEmpty().
ProducePublish ==
    /\ mpc = "publish"
    /\ _decodeBufs' = advanceWritePos(_decodeBufs)
    /\ outMutex' = "none"
    /\ tpc' = Notify(tpc, "next_wait", "next_woken")
    /\ mpc' = "advance_read"
    /\ UNCHANGED <<cfgVars, auxVars, histVars, _first, _readBufs, _readThread,
                   _decodeThreads, _device, _reader, inMutex, rpc, wpc,
                   mreg, treg, inReset, nextCount>>

\* consume(): _in.advanceReadPos(), the read of _used.
ConsumeAdvanceRead ==
    /\ mpc = "advance_read"
    /\ mreg' = _readBufs._used
    /\ mpc' = "advance_write"
    /\ UNCHANGED <<cfgVars, auxVars, histVars, _first, _readBufs, _decodeBufs,
                   _readThread, _decodeThreads, _device, _reader, inMutex,
                   outMutex, rpc, wpc, tpc, treg, inReset, nextCount>>

\* consume(): _in.advanceReadPos(), the write of _used; release of _in's
\* mutex; _in.signalNonFull().
ConsumeAdvanceWrite ==
    /\ mpc = "advance_write"
    /\ _readBufs' = advanceReadPosFrom(_readBufs, mreg)
    /\ mreg' = 0
    /\ inMutex' = "none"
    /\ rpc' = Notify(rpc, "nonfull_wait", "produce")
    /\ mpc' = "manage"
    /\ UNCHANGED <<cfgVars, auxVars, histVars, _first, _decodeBufs, _readThread,
                   _decodeThreads, _device, _reader, outMutex, wpc, tpc,
                   treg, inReset, nextCount>>

\* ------------------------------------------- DecodeThreadPool::run/work
\* run(id): the item range and offsets of worker id.
RunInit(id) ==
    /\ wpc[id] = "run_init"
    /\ _decodeThreads' =
           [_decodeThreads EXCEPT
               !._startInds[id] = StartInd(id, _decodeThreads),
               !._endInds[id] = EndInd(id, _decodeThreads)]
    /\ wpc' = [wpc EXCEPT ![id] = "run"]
    /\ UNCHANGED <<cfgVars, auxVars, histVars, _first, _readBufs, _decodeBufs,
                   _readThread, _device, _reader, inMutex, outMutex, rpc,
                   mpc, tpc, mreg, treg, inReset, nextCount>>

\* run(id): while (_done == false) work(id); _stopped[id] = true.
Run(id) ==
    /\ wpc[id] = "run"
    /\ IF _decodeThreads._done
       THEN /\ _decodeThreads' = [_decodeThreads EXCEPT !._stopped[id] = TRUE]
            /\ wpc' = [wpc EXCEPT ![id] = "stopped"]
       ELSE /\ wpc' = [wpc EXCEPT ![id] = "work"]
            /\ UNCHANGED _decodeThreads
    /\ UNCHANGED <<cfgVars, auxVars, histVars, _first, _readBufs, _decodeBufs,
                   _readThread, _device, _reader, inMutex, outMutex, rpc,
                   mpc, tpc, mreg, treg, inReset, nextCount>>

\* What work(id) leaves in _startSignaled[id] when it takes the signal.
TakeStart(n) == n - 1

\* work(id): under _mutex, while (_startSignaled[id] == 0) wait on
\* _started; then _startSignaled[id]--.
WorkEnter(id) ==
    IF _decodeThreads._startSignaled[id] = 0
    THEN /\ wpc' = [wpc EXCEPT ![id] = "started_wait"]
         /\ UNCHANGED <<_decodeThreads, takes>>
    ELSE /\ wpc' = [wpc EXCEPT ![id] = "decode"]
         /\ _decodeThreads' =
                [_decodeThreads EXCEPT !._startSignaled[id] = TakeStart(@)]
         /\ takes' = [takes EXCEPT ![id] = Min(@ + 1, 2)]

WorkLock(id) ==
    /\ wpc[id] = "work"
    /\ WorkEnter(id)
    /\ UNCHANGED <<cfgVars, auxVars, afterReset, acks, _first, _readBufs, _decodeBufs,
                   _readThread, _device, _reader, inMutex, outMutex, rpc,
                   mpc, tpc, mreg, treg, inReset, nextCount>>

\* work(id): woken from _started.wait: return if _done, else re-check.
WorkWoken(id) ==
    /\ wpc[id] = "started_woken"
    /\ IF _decodeThreads._done
       THEN /\ wpc' = [wpc EXCEPT ![id] = "run"]
            /\ UNCHANGED <<_decodeThreads, takes>>
       ELSE WorkEnter(id)
    /\ UNCHANGED <<cfgVars, auxVars, afterReset, acks, _first, _readBufs, _decodeBufs,
                   _readThread, _device, _reader, inMutex, outMutex, rpc,
                   mpc, tpc, mreg, treg, inReset, nextCount>>

\* The encoded minibatch *_inputBuf.
InputBatch == IF _decodeThreads._inputBuf = -1 THEN NoBatch
              ELSE _readBufs._bufs[_decodeThreads._inputBuf]

\* The write slot after worker id transformed its items of batch src.
Decoded(slot, id, tp, src) ==
    [i \in DOMAIN slot |->
        IF tp._startInds[id] <= i /\ i < tp._endInds[id]
        THEN [id |-> src.id, layout |-> IF src.id = -1 THEN "none" ELSE "item"]
        ELSE slot[i]]

\* transform(..., int* meta): encTargetLen is cut to _targetLen before the
\* copy, and that value is what *(meta + _batchSize) receives.
StoredTargetLen(encTargetLen, targetLen) ==
    IF encTargetLen > targetLen THEN targetLen ELSE encTargetLen

\* transform(..., int* meta) on item i: the media transformer writes its
\* scalar (0 here) to meta[i]; the target length goes to meta[B + i].
TransformMeta(meta, i, batchSize, encTargetLen, targetLen) ==
    [meta EXCEPT ![i] = 0,
                 ![batchSize + i] = StoredTargetLen(encTargetLen, targetLen)]

\* work(id): the meta buffer after the loop over items [from, end).
RECURSIVE WorkMeta(_, _, _)
WorkMeta(meta, from, end) ==
    IF from >= end THEN meta
    ELSE WorkMeta(TransformMeta(meta, from, _batchSize, encTargetLens[from],
                                _targetLen),
                  from + 1, end)

\* work(id): transform items [start, end) of *_inputBuf into the write
\* slot of _out; then _endSignaled++ under _mutex and _ended.notify_one().
WorkDecode(id) ==
    /\ wpc[id] = "decode"
    /\ _decodeBufs' =
           putForWrite(_decodeBufs,
               Decoded(getForWrite(_decodeBufs), id, _decodeThreads, InputBatch))
    /\ _decodeThreads' =
           [_decodeThreads EXCEPT !._endSignaled = Min(@ + 1, MaxEnd)]
    /\ metaBuf' =
           IF _targetConversion = "READ_CONTENTS" THEN metaBuf
           ELSE [metaBuf EXCEPT ![_decodeBufs._writePos] =
                    WorkMeta(@, _decodeThreads._startInds[id],
                             _decodeThreads._endInds[id])]
    /\ acks' = acks \cup {id}
    /\ mpc' = Notify(mpc, "ended_wait", "ended_check")
    /\ wpc' = [wpc EXCEPT ![id] = "run"]
    /\ UNCHANGED <<cfgVars, inFlight, lifetime, afterReset, takes, _first,
                   _readBufs, _readThread,
                   _device, _reader, inMutex, outMutex, rpc, tpc, mreg, treg,
                   inReset, nextCount>>

\* --------------------------------------------------------- Loader::stop
\* stop(): _readThread->stop(), which sets the read thread's _done.
StopCall ==
    /\ tpc = "idle"
    /\ _readThread' = [_readThread EXCEPT !._done = TRUE]
    /\ tpc' = "stop_loop1"
    /\ nextCount' = 0
    /\ UNCHANGED <<cfgVars, auxVars, histVars, _first, _readBufs, _decodeBufs,
                   _decodeThreads, _device, _reader, inMutex, outMutex, rpc,
                   mpc, wpc, mreg, treg, inReset>>

\* reset(): stop(); _reader->reset(); start().
ResetCall ==
    /\ tpc = "idle"
    /\ _readThread' = [_readThread EXCEPT !._done = TRUE]
    /\ tpc' = "stop_loop1"
    /\ inReset' = TRUE
    /\ afterReset' = TRUE
    /\ nextCount' = 0
    /\ UNCHANGED <<cfgVars, auxVars, acks, takes, _first, _readBufs, _decodeBufs,
                   _decodeThreads, _device, _reader, inMutex, outMutex, rpc,
                   mpc, wpc, mreg, treg>>

\* stop(): while (_readThread->stopped() == false) { yield; drain(); }
StopLoop1 ==
    /\ tpc = "stop_loop1"
    /\ tpc' = IF _readThread._stopped THEN "stop_loop2" ELSE "drain1"
    /\ UNCHANGED <<cfgVars, auxVars, histVars, _first, _readBufs, _decodeBufs,
                   _readThread, _decodeThreads, _device, _reader, inMutex,
                   outMutex, rpc, mpc, wpc, mreg, treg, inReset, nextCount>>

\* drain(): under _decodeBufs' mutex, return if empty, else advanceReadPos;
\* then signalNonFull.
Drain ==
    /\ tpc \in {"drain1", "drain2"}
    /\ outMutex = "none"
    /\ IF empty(_decodeBufs)
       THEN UNCHANGED <<_decodeBufs, mpc, inFlight>>
       ELSE /\ _decodeBufs' = advanceReadPos(_decodeBufs)
            /\ mpc' = Notify(mpc, "out_nonfull_wait", "produce")
            /\ inFlight' = ReleasedOneMore(inFlight)
    /\ tpc' = IF tpc = "drain1" THEN "stop_loop1" ELSE "stop_loop2"
    /\ UNCHANGED <<cfgVars, metaBuf, lifetime, histVars, _first, _readBufs, _readThread,
                   _decodeThreads, _device, _reader, inMutex, outMutex, rpc,
                   wpc, mreg, treg, inReset, nextCount>>

\* stop(): the first operand of the second loop's condition, read without
\* the mutex: _decodeBufs->empty() == false.
StopLoop2Decode ==
    /\ tpc = "stop_loop2"
    /\ tpc' = IF empty(_decodeBufs) THEN "stop_loop2_read" ELSE "drain2"
    /\ UNCHANGED <<cfgVars, auxVars, histVars, _first, _readBufs, _decodeBufs,
                   _readThread, _decodeThreads, _device, _reader, inMutex,
                   outMutex, rpc, mpc, wpc, mreg, treg, inReset, nextCount>>

\* stop(): the second operand: _readBufs->empty() == false; when both
\* pools were seen empty, _decodeThreads->stop() begins with
\* ThreadPool::stop(), which sets the workers' _done.
StopLoop2Read ==
    /\ tpc = "stop_loop2_read"
    /\ IF empty(_readBufs)
       THEN /\ tpc' = "dstop_loop1"
            /\ _decodeThreads' = [_decodeThreads EXCEPT !._done = TRUE]
       ELSE /\ tpc' = "drain2"
            /\ UNCHANGED _decodeThreads
    /\ UNCHANGED <<cfgVars, auxVars, histVars, _first, _readBufs, _decodeBufs,
                   _readThread, _device, _reader, inMutex, outMutex, rpc,
                   mpc, wpc, mreg, treg, inReset, nextCount>>

\* ------------------------------------------------ DecodeThreadPool::stop
\* stop(): while (stopped() == false) { yield; ... }; _stopManager = true.
DecodeStopLoop1 ==
    /\ tpc = "dstop_loop1"
    /\ IF stopped(_decodeThreads)
       THEN /\ tpc' = "dstop_loop2"
            /\ _decodeThreads' = [_decodeThreads EXCEPT !._stopManager = TRUE]
       ELSE /\ tpc' = "dstop1_adv"
            /\ UNCHANGED _decodeThreads
    /\ UNCHANGED <<cfgVars, auxVars, histVars, _first, _readBufs, _decodeBufs,
                   _readThread, _device, _reader, inMutex, outMutex, rpc,
                   mpc, wpc, mreg, treg, inReset, nextCount>>

\* stop(): while (_managerStopped == false) { yield; ... }
DecodeStopLoop2 ==
    /\ tpc = "dstop_loop2"
    /\ tpc' = IF _decodeThreads._managerStopped THEN "stop_delete"
              ELSE "dstop2_adv"
    /\ UNCHANGED <<cfgVars, auxVars, histVars, _first, _readBufs, _decodeBufs,
                   _readThread, _decodeThreads, _device, _reader, inMutex,
                   outMutex, rpc, mpc, wpc, mreg, treg, inReset, nextCount>>

\* stop(), either loop: _in.advanceWritePos() without _in's mutex, the
\* read of _used.
DecodeStopAdvanceRead ==
    /\ tpc \in {"dstop1_adv", "dstop2_adv"}
    /\ treg' = _readBufs._used
    /\ tpc' = IF tpc = "dstop1_adv" THEN "dstop1_adv_w" ELSE "dstop2_adv_w"
    /\ UNCHANGED <<cfgVars, auxVars, histVars, _first, _readBufs, _decodeBufs,
                   _readThread, _decodeThreads, _device, _reader, inMutex,
                   outMutex, rpc, mpc, wpc, mreg, inReset, nextCount>>

\* stop(), either loop: the write of _used and _writePos, then
\* _in.signalNonEmpty().
DecodeStopAdvanceWrite ==
    /\ tpc \in {"dstop1_adv_w", "dstop2_adv_w"}
    /\ _readBufs' = advanceWritePosFrom(_readBufs, treg)
    /\ treg' = 0
    /\ mpc' = Notify(mpc, "nonempty_wait", "nonempty_woken")
    /\ tpc' = IF tpc = "dstop1_adv_w" THEN "dstop_loop1" ELSE "dstop2_end"
    /\ UNCHANGED <<cfgVars, auxVars, histVars, _first, _decodeBufs, _readThread,
                   _decodeThreads, _device, _reader, inMutex, outMutex, rpc,
                   wpc, mreg, inReset, nextCount>>

\* stop(), second loop: _endSignaled++ without _mutex, the read.
DecodeStopEndRead ==
    /\ tpc = "dstop2_end"
    /\ treg' = _decodeThreads._endSignaled
    /\ tpc' = "dstop2_end_w"
    /\ UNCHANGED <<cfgVars, auxVars, histVars, _first, _readBufs, _decodeBufs,
                   _readThread, _decodeThreads, _device, _reader, inMutex,
                   outMutex, rpc, mpc, wpc, mreg, inReset, nextCount>>

\* stop(), second loop: the write of _endSignaled, then
\* _ended.notify_one().
DecodeStopEndWrite ==
    /\ tpc = "dstop2_end_w"
    /\ _decodeThreads' =
           [_decodeThreads EXCEPT !._endSignaled = Min(treg + 1, MaxEnd)]
    /\ treg' = 0
    /\ mpc' = Notify(mpc, "ended_wait", "ended_check")
    /\ tpc' = "dstop_loop2"
    /\ UNCHANGED <<cfgVars, auxVars, histVars, _first, _readBufs, _decodeBufs,
                   _readThread, _device, _reader, inMutex, outMutex, rpc,
                   wpc, mreg, inReset, nextCount>>

\* A thread of the pipeline has not finished: it may still use the pools.
ThreadsRunning ==
    \/ rpc # "stopped"
    \/ mpc # "stopped"
    \/ \E i \in Workers : wpc[i] # "stopped"
\* delete on a handle that is not null and whose object is already deleted.
DeletedTwice(h, none) == h # none /\ ~h.alive
DeletesTwice ==
    \/ DeletedTwice(_readBufs, NoPool)
    \/ DeletedTwice(_readThread, NoReadThread)
    \/ DeletedTwice(_decodeBufs, NoPool)
    \/ DeletedTwice(_decodeThreads, NoThreads)
\* Variant of StopNullHandle that deletes and keeps the handle (C20).
StopKeepHandle(h, none) == [h EXCEPT !.alive = FALSE]
\* stop(): delete h; h = 0.
StopNullHandle(h, none) == none

\* stop(): delete the pools and the thread objects (the destructors join
\* the threads) and null the four handles.
StopDelete ==
    /\ tpc = "stop_delete"
    /\ lifetime' =
           IF lifetime # "ok" THEN lifetime
           ELSE IF ThreadsRunning THEN "use_after_delete"
           ELSE IF DeletesTwice THEN "double_delete"
           ELSE "ok"
    /\ _readBufs' = StopNullHandle(_readBufs, NoPool)
    /\ _decodeBufs' = StopNullHandle(_decodeBufs, NoPool)
    /\ _readThread' = StopNullHandle(_readThread, NoReadThread)
    /\ _decodeThreads' = StopNullHandle(_decodeThreads, NoThreads)
    /\ rpc' = "none"
    /\ mpc' = "none"
    /\ wpc' = << >>
    /\ takes' = << >>
    /\ acks' = {}
    /\ tpc' = IF inReset THEN "reset_reader" ELSE "stopped"
    /\ UNCHANGED <<cfgVars, metaBuf, inFlight, afterReset, _first, _device,
                   _reader, inMutex, outMutex, mreg, treg, inReset, nextCount>>

\* ~Loader(): delete the four handles (delete of a null handle does
\* nothing), then the device and the reader.
Destroy ==
    /\ tpc \in {"constructed", "stopped", "start_failed"}
    /\ lifetime' =
           IF lifetime # "ok" THEN lifetime
           ELSE IF DeletesTwice THEN "double_delete"
           ELSE "ok"
    /\ _readBufs' = NoPool
    /\ _decodeBufs' = NoPool
    /\ _readThread' = NoReadThread
    /\ _decodeThreads' = NoThreads
    /\ tpc' = "destroyed"
    /\ UNCHANGED <<cfgVars, metaBuf, inFlight, histVars, _first, _device,
                   _reader, inMutex, outMutex, rpc, mpc, wpc, mreg, treg,
                   inReset, nextCount>>

\* -------------------------------------------------------- Loader::reset
\* Variant of ResetReader that leaves the reader where it is (C8).
ResetReaderSkipped(r) == r
\* What reset() does to the Reader between stop() and start().
ResetReader(r) == ReaderReset(r)

ResetRewind ==
    /\ tpc = "reset_reader"
    /\ _reader' = ResetReader(_reader)
    /\ _device' = [s \in DOMAIN _device |-> Outdated(_device[s])]
    /\ tpc' = "reset_start"
    /\ UNCHANGED <<cfgVars, auxVars, histVars, _first, _readBufs, _decodeBufs,
                   _readThread, _decodeThreads, inMutex, outMutex, rpc, mpc,
                   wpc, mreg, treg, inReset, nextCount>>

\* ------------------------------------------------------- specification
Reader == ReadRun \/ ReadProduceLock \/ ReadProduceRead
Manager ==
    \/ ManageInit \/ Manage \/ ConsumeLock \/ ConsumeWoken \/ ProduceLock
    \/ ProduceEnded \/ ProduceCopy \/ ProducePublish
    \/ ConsumeAdvanceRead \/ ConsumeAdvanceWrite
Worker(id) ==
    RunInit(id) \/ Run(id) \/ WorkLock(id) \/ WorkWoken(id) \/ WorkDecode(id)
Trainer == Start \/ NextCall \/ NextLock \/ NextWoken
Stopper ==
    \/ StopCall \/ ResetCall \/ StopLoop1 \/ Drain \/ StopLoop2Decode
    \/ StopLoop2Read \/ DecodeStopLoop1 \/ DecodeStopLoop2
    \/ DecodeStopAdvanceRead \/ DecodeStopAdvanceWrite \/ DecodeStopEndRead
    \/ DecodeStopEndWrite \/ StopDelete \/ ResetRewind \/ Destroy

Next == Reader \/ Manager \/ (\E id \in Workers : Worker(id)) \/ Trainer \/ Stopper

Spec == Init /\ [][Next]_vars

\* The pipeline in production: start(), then next() again and again,
\* with pools of every capacity 1 .. PoolCount.
NextRun == Reader \/ Manager \/ (\E id \in Workers : Worker(id)) \/ Trainer

\* Every thread that can take a step is eventually scheduled.
Fair ==
    /\ WF_vars(Reader)
    /\ WF_vars(Manager)
    /\ WF_vars(Trainer)
    /\ \A id \in 0 .. (BatchSize - 1) : WF_vars(id \in Workers /\ Worker(id))

SpecRun == InitWith(1 .. PoolCount) /\ [][NextRun]_vars /\ Fair

\* The whole Loader under fair scheduling, the thread in stop() included.
FairSpec == Spec /\ Fair /\ WF_vars(Stopper)

\* A DecodeThreadPool constructed directly with any batch size and worker
\* count. When the constructor's assertions fail, a build with assertions
\* aborts and a build without them goes on; the workers then compute their
\* ranges at the top of run().
PartitionInit ==
    /\ poolCount = PoolCount
    /\ NoFault
    /\ JointDecode
    /\ numCores = 1
    /\ _batchSize \in 1 .. PartMaxBatch
    /\ _first = TRUE
    /\ _readBufs = NewBufferPool(poolCount, NoBatch)
    /\ _decodeBufs = NewBufferPool(poolCount, EmptySlot(_batchSize))
    /\ _readThread = NoReadThread
    /\ \E count \in 1 .. PartMaxCount :
          \/ /\ _decodeThreads = NewDecodeThreadPool(count, _batchSize)
             /\ wpc = [i \in Ids(count) |-> "run_init"]
             /\ takes = [i \in Ids(count) |-> 0]
             /\ tpc = "idle"
          \/ /\ ~CtorAsserts(count, _batchSize)
             /\ _decodeThreads = NoThreads
             /\ wpc = << >>
             /\ takes = << >>
             /\ tpc = "aborted"
    /\ _device = [s \in 0 .. 1 |-> EmptySlot(_batchSize)]
    /\ _reader = [pos |-> 0]
    /\ inMutex = "none"
    /\ outMutex = "none"
    /\ rpc = "none"
    /\ mpc = "none"
    /\ mreg = 0
    /\ treg = 0
    /\ inReset = FALSE
    /\ nextCount = 0
    /\ afterReset = FALSE
    /\ acks = {}
    /\ inFlight = 0
    /\ lifetime = "ok"

PartitionNext == \E id \in Workers : RunInit(id)

PartitionSpec == PartitionInit /\ [][PartitionNext]_vars

\* ============================================================ properties
\* The trainer is inside the production cycle of next() calls.
Running == tpc \in {"idle", "next_lock", "next_wait", "next_woken"}
\* The trainer holds the minibatch its latest next() returned.
Holding == tpc \in {"idle", "next_lock"} /\ ~_first
\* The slots of pool p between the read and the write cursor.
PublishedSlots(p) == {(p._readPos + j) % p._count : j \in 0 .. (p._used - 1)}
\* Every item of the slot is decoded and transposed, all of one minibatch.
Complete(slot) == \E id \in 0 .. (NumBatches - 1) : HoldsBatch(slot, id)
\* The manager or a worker is writing a decode-pool slot.
Writing ==
    \/ mpc \in {"ended_check", "ended_wait", "copy", "publish"}
    \/ \E i \in Workers : wpc[i] = "decode"

\* C1: FIFO order. After its k-th return from next() the trainer holds, at
\* the decode pool's read cursor, the minibatch of the k-th reader.read
\* since start(): nothing skipped, duplicated or reordered, N = 1 and N > 1.
C1_FifoOrder == Holding => HoldsBatch(getForRead(_decodeBufs), Expected)
C1_Witness ==
    /\ Holding
    /\ nextCount = NumBatches
    /\ _decodeThreads._count = 2
    /\ ~afterReset

\* C2: whatever next() can return has been decoded by all N workers over
\* every item, transposed and copied to a device slot: every published
\* slot of the decode pool is complete and resident on the device, and the
\* manager copies and publishes only after all N completions of the round.
C2_DecodedAndCopied ==
    Running =>
        /\ \A s \in PublishedSlots(_decodeBufs) :
              /\ Complete(_decodeBufs._bufs[s])
              /\ \E d \in DOMAIN _device : _device[d] = _decodeBufs._bufs[s]
        /\ mpc \in {"copy", "publish"} => acks = Workers
C2_Witness ==
    /\ tpc = "idle"
    /\ ~_first
    /\ _decodeThreads._count = 2
    /\ _decodeBufs._used = 1
    /\ mpc = "publish"

\* C3: double-buffer isolation. While the trainer holds a minibatch, the
\* decode-pool slot the manager and the workers write is not the held one,
\* and the device slot the next copy goes to is not the held one.
C3_Isolation ==
    /\ (Holding /\ Writing) => _decodeBufs._writePos # _decodeBufs._readPos
    /\ (Holding /\ mpc \in {"ended_check", "ended_wait", "copy"})
           => _decodeThreads._bufferIndex # HeldSlot
C3_Witness ==
    /\ Holding
    /\ mpc = "copy"
    /\ _decodeThreads._count = 2

\* The trainer's thread is inside Loader::stop().
Stopping ==
    tpc \in {"stop_loop1", "drain1", "stop_loop2", "stop_loop2_read", "drain2",
             "dstop_loop1", "dstop1_adv", "dstop1_adv_w", "dstop_loop2",
             "dstop2_adv", "dstop2_adv_w", "dstop2_end", "dstop2_end_w",
             "stop_delete"}
\* Loader::stop() has returned.
StopReturned == tpc \in {"stopped", "reset_reader", "reset_start"}

\* C4: clean shutdown. Under fair scheduling every call of Loader::stop()
\* on a started pipeline eventually returns, and when its loops are over
\* the read thread's flag, every worker's flag and _managerStopped are set.
C4_CleanShutdown ==
    /\ Stopping ~> StopReturned
    /\ [](tpc = "stop_delete" =>
             /\ _readThread._stopped
             /\ stopped(_decodeThreads)
             /\ _decodeThreads._managerStopped)

\* The reader, the manager, every worker and the trainer wait on a
\* condition variable.
AllBlocked ==
    /\ rpc = "nonfull_wait"
    /\ mpc \in {"nonempty_wait", "out_nonfull_wait", "ended_wait"}
    /\ \A i \in Workers : wpc[i] = "started_wait"
    /\ tpc = "next_wait"

\* C5: no lost wakeups. In a running pipeline whose trainer keeps calling
\* next(), for pools of capacity 1 and more and one or more workers, the
\* four kinds of thread are never all blocked at once, and under fair
\* scheduling every call of next() returns.
C5_NoLostWakeup ==
    /\ []~AllBlocked
    /\ (tpc = "next_lock") ~> (tpc = "idle")
C5_Witness ==
    /\ poolCount = 1
    /\ _decodeThreads._count = 2
    /\ rpc = "nonfull_wait"
    /\ mpc = "out_nonfull_wait"
    /\ \A i \in Workers : wpc[i] = "started_wait"
    /\ tpc = "next_lock"
    /\ nextCount = 2

\* C6: pool occupancy. In every state, from start() through the whole of
\* stop(), both pools hold between 0 and their capacity minibatches.
C6_Occupancy ==
    /\ 0 <= _readBufs._used
    /\ _readBufs._used <= _readBufs._count
    /\ 0 <= _decodeBufs._used
    /\ _decodeBufs._used <= _decodeBufs._count

\* C7: barrier. In every execution, shutdown included, (a) no worker takes
\* two start signals without the manager's reset of _endSignaled between
\* them, and (b) the manager is past the wait on _ended, copying or
\* publishing, only when each of the N workers has completed the round.
C7_Barrier ==
    /\ \A i \in Workers : takes[i] <= 1
    /\ mpc \in {"copy", "publish"} => acks = Workers

\* C8: reset restarts from the beginning. When reset() has stopped the
\* pipeline and rewound the reader, the reader is at the first minibatch
\* and both pools with whatever they had prefetched are gone; the k-th
\* next() after the reset then returns the k-th minibatch of the data set.
C8_ResetRestarts ==
    /\ tpc = "reset_start" =>
          /\ _reader.pos = 0
          /\ ~_readBufs.alive
          /\ ~_decodeBufs.alive
    /\ (afterReset /\ Holding) =>
          /\ HoldsBatch(getForRead(_decodeBufs), Expected)
          /\ HoldsBatch(_device[HeldSlot], Expected)
C8_Witness ==
    /\ afterReset
    /\ Holding
    /\ nextCount = 2
    /\ _decodeThreads._count = 2

\* C9: device slot parity. From the return of the i-th next() after a
\* start() or reset() (i from 0) until the following call, device slot
\* i mod 2 holds the minibatch that call delivered.
C9_SlotParity == Holding => HoldsBatch(_device[HeldSlot], Expected)
C9_Witness ==
    /\ Holding
    /\ HeldSlot = 1
    /\ mpc = "publish"
    /\ nextCount = 2

\* Every worker has computed its range at the top of run().
RangesComputed ==
    /\ _decodeThreads.alive
    /\ \A i \in Workers : wpc[i] # "run_init"
\* The items of worker id's range [_startInds[id], _endInds[id]).
Range(id) ==
    {k \in -PartMaxBatch .. (2 * PartMaxBatch + PartMaxCount) :
        _decodeThreads._startInds[id] <= k /\ k < _decodeThreads._endInds[id]}
\* The workers' ranges are pairwise disjoint, lie inside [0, B), cover
\* [0, B), and the last worker's range ends at B.
Partition ==
    /\ \A i, j \in Workers : i # j => Range(i) \cap Range(j) = {}
    /\ \A i \in Workers :
          /\ 0 <= _decodeThreads._startInds[i]
          /\ _decodeThreads._startInds[i] <= _decodeThreads._endInds[i]
          /\ _decodeThreads._endInds[i] <= _batchSize
    /\ UNION {Range(i) : i \in Workers} = 0 .. (_batchSize - 1)
    /\ _decodeThreads._endInds[_decodeThreads._count - 1] = _batchSize

\* C10 as stated: partition coverage for all batch sizes B >= 1 and all
\* worker counts N >= 1 given to DecodeThreadPool.
C10_PartitionAll == RangesComputed => Partition

\* C10 amended: partition coverage for all B >= 1 and N >= 1 that satisfy
\* the constructor's assertions, ceil(B/N) * N >= B and
\* ceil(B/N) * (N - 1) < B.
C10_PartitionAsserted ==
    (RangesComputed /\ CtorAsserts(_decodeThreads._count, _batchSize))
        => Partition
C10_Witness ==
    /\ RangesComputed
    /\ _batchSize = 5
    /\ _decodeThreads._count = 3
    /\ _decodeThreads._endInds[2] = 5

\* Loader::start() for any batch size and core count, with or without a
\* failing allocation; the workers then compute their ranges.
StartInit ==
    /\ poolCount = PoolCount
    /\ numCores \in 1 .. PartMaxCount
    /\ _batchSize \in 1 .. PartMaxBatch
    /\ allocFailAt \in 0 .. 4
    /\ deviceInit = 0
    /\ readFailAt = 0
    /\ JointDecode
    /\ Constructed

StartNext == Start \/ \E id \in Workers : RunInit(id)

StartSpec == StartInit /\ [][StartNext]_vars

\* C13: allocation failure in start(). When an allocation of start()
\* fails, start() returns -1 with no thread spawned and with the four
\* handles as they were before the call (null).
C13_AllocFailure ==
    tpc = "start_failed" =>
        /\ rpc = "none" /\ mpc = "none" /\ wpc = << >>
        /\ ~_readBufs.alive
        /\ ~_readThread.alive
        /\ ~_decodeBufs.alive
        /\ ~_decodeThreads.alive

CeilDiv(a, b) == (a + b - 1) \div b
\* start() has constructed the DecodeThreadPool.
Started == tpc = "idle" /\ _decodeThreads.alive

\* C15 as stated: the worker count start() passes to DecodeThreadPool is
\* min(B, ceil(B / C)) for batch size B and hardware_concurrency() C.
C15_WorkerCountStated ==
    Started =>
        _decodeThreads._count = Min(_batchSize, CeilDiv(_batchSize, numCores))

\* C15 amended: the worker count is min(B, ceil(B / ceil(B / C))), the
\* least count whose items per worker are ceil(B / C).
C15_WorkerCount ==
    Started =>
        _decodeThreads._count =
            Min(_batchSize,
                CeilDiv(_batchSize, CeilDiv(_batchSize, numCores)))
C15_Witness ==
    /\ Started
    /\ _batchSize = 5
    /\ numCores = 4
    /\ _decodeThreads._count = 3
    /\ RangesComputed

\* The pipeline on the datum-only path: raw targets of every encoded
\* length 0 .. MaxTargetLen + 1 copied into target slots of _targetLen
\* bytes, one meta buffer of 2 * batchSize ints per decode-pool slot.
TransformInit ==
    /\ poolCount = PoolCount
    /\ numCores \in 1 .. MaxCores
    /\ _batchSize = BatchSize
    /\ NoFault
    /\ _targetLen \in 0 .. MaxTargetLen
    /\ _targetConversion = "RAW_COPY"
    /\ encTargetLens \in [Items(_batchSize) -> 0 .. (MaxTargetLen + 1)]
    /\ metaBuf = [s \in 0 .. (poolCount - 1) |->
                     [k \in 0 .. (2 * _batchSize - 1) |-> -1]]
    /\ Constructed

TransformSpec == TransformInit /\ [][NextRun]_vars

\* C16: target length metadata. On the datum-only path, when a decode
\* round is complete, meta[B + i] of the write slot is the original encoded
\* target length of item i, for every i in [0, B), truncated or not.
C16_TargetLenMeta ==
    (_targetConversion # "READ_CONTENTS" /\ mpc = "copy") =>
        \A i \in Items(_batchSize) :
            metaBuf[_decodeBufs._writePos][_batchSize + i] = encTargetLens[i]

\* The trainer's thread is inside DecodeThreadPool::stop().
DecodeStopping ==
    tpc \in {"dstop_loop1", "dstop1_adv", "dstop1_adv_w", "dstop_loop2",
             "dstop2_adv", "dstop2_adv_w", "dstop2_end", "dstop2_end_w"}
\* The manager is inside produce().
InProduce ==
    mpc \in {"produce", "out_nonfull_wait", "ended_check", "ended_wait",
             "copy", "publish"}
\* The manager has pinned _inputBuf and not yet released the slot.
InRound == InProduce \/ mpc \in {"advance_read", "advance_write"}

\* C17: stop ordering. At the step in which Loader::stop() leaves its
\* second loop and DecodeThreadPool::stop() begins, the read thread has
\* stopped and both pools are empty.
C17_StopOrdering ==
    [][(tpc = "stop_loop2_read" /\ tpc' = "dstop_loop1") =>
          /\ _readThread'._stopped
          /\ empty(_readBufs')
          /\ empty(_decodeBufs')]_vars

\* C18: manager shutdown is data-free. While DecodeThreadPool::stop() runs
\* the manager is not inside produce(), and whatever is published in the
\* decode pool or resident in a device slot is a minibatch the reader read.
C18_DataFreeShutdown ==
    /\ DecodeStopping => ~InProduce
    /\ \A s \in PublishedSlots(_decodeBufs) : Complete(_decodeBufs._bufs[s])
    /\ \A d \in DOMAIN _device :
          Complete(_device[d]) \/ _device[d] = Outdated(_device[d])

\* C19: no aliasing on the read pool. The slot the read thread fills is
\* not one of the published slots (the manager has released it with
\* advanceReadPos), no decode round is under way while it is filled, and
\* the slot _inputBuf the workers decode from is a published one.
C19_ReadPoolNoAliasing ==
    /\ rpc = "read" =>
          /\ _readBufs._writePos \notin PublishedSlots(_readBufs)
          /\ ~InRound
    /\ (Running /\ InRound) =>
          _decodeThreads._inputBuf \in PublishedSlots(_readBufs)
C19_Witness ==
    /\ rpc = "read"
    /\ _readBufs._used = 1
    /\ _readBufs._writePos = 1
    /\ _decodeThreads._inputBuf = 1
    /\ nextCount = 2

\* C14: backpressure. However long the trainer stays away from next(),
\* at most S_read + S_decode minibatches are read and not yet released;
\* the reader waits only on a full read pool and the manager only on a
\* full decode pool, and neither fills a slot of a full pool; and with the
\* trainer calling next() again, deliveries go on.
C14_Backpressure ==
    /\ [](/\ inFlight <= 2 * poolCount
          /\ rpc = "nonfull_wait" => full(_readBufs)
          /\ mpc = "out_nonfull_wait" => full(_decodeBufs)
          /\ rpc = "read" => ~full(_readBufs)
          /\ mpc \in {"ended_check", "ended_wait", "copy", "publish"}
                 => ~full(_decodeBufs))
    /\ \A c \in 0 .. (2 * NumBatches - 1) :
          (_readBufs.alive /\ nextCount = c) ~> (nextCount # c)
C14_Witness ==
    /\ tpc = "idle"
    /\ poolCount = 2
    /\ inFlight = 2 * poolCount
    /\ rpc = "nonfull_wait"
    /\ mpc = "out_nonfull_wait"
    /\ \A i \in Workers : wpc[i] = "started_wait"

\* C20: pool lifetime. When stop() deletes the pools, the read thread,
\* every worker and the manager have set their stopped flags and finished;
\* no object is used after its deletion, deleted twice or leaked, by
\* stop(), by a following start()/stop() cycle or by the destructor; and
\* after stop() the four handles are null.
C20_PoolLifetime ==
    /\ tpc = "stop_delete" =>
          /\ ~ThreadsRunning
          /\ _readThread._stopped
          /\ stopped(_decodeThreads)
          /\ _decodeThreads._managerStopped
    /\ lifetime = "ok"
    /\ StopReturned =>
          /\ _readBufs = NoPool
          /\ _readThread = NoReadThread
          /\ _decodeBufs = NoPool
          /\ _decodeThreads = NoThreads
C20_Witness ==
    /\ tpc = "destroyed"
    /\ afterReset
    /\ lifetime = "ok"

\* The Loader with at most one fault: none, Reader::read returning -1 on
\* its 1st .. MaxFailAt-th call, or Device::init returning nonzero; every
\* thread scheduled fairly, the thread in stop() included.
FaultInit ==
    /\ poolCount = PoolCount
    /\ allocFailAt = 0
    /\ readFailAt \in 0 .. MaxFailAt
    /\ deviceInit \in 0 .. 1
    /\ readFailAt = 0 \/ deviceInit = 0
    /\ JointDecode
    /\ numCores \in 1 .. MaxCores
    /\ _batchSize = BatchSize
    /\ Constructed

FaultSpec == FaultInit /\ [][Next]_vars /\ Fair /\ WF_vars(Stopper)

\* The read thread has ended at the failing position, its flags set (a
\* stop() that ends it there leaves the same state as the failed read).
ReadFailed ==
    /\ ReadFails(_reader)
    /\ rpc = "stopped"
    /\ _readThread._done
    /\ _readThread._stopped

\* C11: reader failure. When reader.read returns -1 on its m-th call, no
\* more than the m-1 minibatches read before it are delivered and each is
\* the one read, the failing slot is not published, the read thread is
\* done; a next() that waits after the failure does not wait forever, and
\* a stop() called after the failure returns.
C11_ReaderFailure ==
    /\ [](readFailAt # 0 /\ _readBufs.alive =>
             /\ nextCount <= readFailAt - 1
             /\ \A j \in PublishedSlots(_readBufs) :
                   _readBufs._bufs[j].id < readFailAt - 1
             /\ (rpc = "stopped" /\ Running => ReadFailed))
    /\ (ReadFailed /\ tpc = "next_wait") ~> (tpc # "next_wait")
    /\ (ReadFailed /\ Stopping) ~> StopReturned

\* C12: device initialization failure. When device.init() returns nonzero
\* the manager sets _stopManager and never enters consume() or produce():
\* nothing is published to the decode pool or copied to the device; and a
\* stop() called afterwards returns, with the read thread, every worker
\* and the manager stopped when it deletes them.
C12_DeviceInitFailure ==
    /\ [](deviceInit # 0 /\ _decodeThreads.alive =>
             /\ mpc \in {"manage_init", "manage", "stopped"}
             /\ (mpc # "manage_init" => _decodeThreads._stopManager)
             /\ empty(_decodeBufs)
             /\ \A d \in 0 .. 1 : _device[d] = EmptySlot(_batchSize)
             /\ (tpc = "stop_delete" => ~ThreadsRunning))
    /\ (deviceInit # 0 /\ Stopping) ~> StopReturned

\* Worker id takes its start signal in this step: _startSignaled[id]--.
TakesStart(id) ==
    /\ wpc[id] \in {"work", "started_woken"}
    /\ wpc'[id] = "decode"
\* Worker id completes its part of the round in this step: _endSignaled++.
SignalsEnd(id) ==
    /\ wpc[id] = "decode"
    /\ wpc'[id] = "run"

\* C21: the barrier assertions never fail. In every execution, shutdown
\* included, each _startSignaled[id] is 0 or 1, a worker's decrement of
\* its start signal leaves 0 (assert(_startSignaled[id] == 0)), and a
\* worker's increment of the completion counter leaves at most N
\* (assert(_endSignaled <= _count)).
C21_BarrierAssertions ==
    /\ [](\A i \in Workers : _decodeThreads._startSignaled[i] \in {0, 1})
    /\ [][\A id \in Workers :
             /\ TakesStart(id) => _decodeThreads'._startSignaled[id] = 0
             /\ SignalsEnd(id) =>
                   _decodeThreads'._endSignaled <= _decodeThreads'._count]_vars
C21_Witness ==
    /\ Stopping
    /\ _decodeThreads._count = 2
    /\ acks = Workers
    /\ _decodeThreads._endSignaled = _decodeThreads._count
    /\ \A i \in Workers : _decodeThreads._startSignaled[i] = 0

\* Variant of Offset that multiplies the worker's id (C22).
OffsetOfThread(tp, id, len) == id * len
\* run(id): _dataOffsets[id] = _startInds[id] * _datumLen, and the same
\* for _targetOffsets[id] with _targetLen.
Offset(tp, id, len) == tp._startInds[id] * len
\* run(id): _metaOffsets[id] = _startInds[id].
MetaOffset(tp, id) == tp._startInds[id]
\* work(id): where item i is written: the pointer starts at the worker's
\* offset and moves by len after each item from start on.
ItemOffset(offset, start, i, len) == offset + (i - start) * len

\* C22: the worker count of Loader::start() is valid. For batch sizes
\* B >= 1 and core counts C >= 1, N = min(ceil(B / ceil(B/C)), B) has
\* 1 <= N <= min(B, C) and passes both constructor assertions; every
\* worker's range is non-empty, the ranges are disjoint slices, and every
\* item i of [0, B) belongs to exactly one worker, which writes it at
\* offset i*len of data and targets and at i of meta.
C22_WorkerCountValid ==
    /\ tpc # "aborted"
    /\ Started =>
          /\ _decodeThreads._count =
                Min(CeilDiv(_batchSize, CeilDiv(_batchSize, numCores)),
                    _batchSize)
          /\ 1 <= _decodeThreads._count
          /\ _decodeThreads._count <= Min(_batchSize, numCores)
          /\ CtorAsserts(_decodeThreads._count, _batchSize)
    /\ (Started /\ RangesComputed) =>
          /\ Partition
          /\ \A id \in Workers : Range(id) # {}
          /\ \A i \in 0 .. (_batchSize - 1) :
                Cardinality({id \in Workers : i \in Range(id)}) = 1
          /\ \A id \in Workers : \A i \in Range(id) :
                /\ \A len \in 1 .. MaxItemLen :
                      ItemOffset(Offset(_decodeThreads, id, len),
                                 _decodeThreads._startInds[id], i, len)
                          = i * len
                /\ ItemOffset(MetaOffset(_decodeThreads, id),
                              _decodeThreads._startInds[id], i, 1) = i
C22_Witness ==
    /\ Started
    /\ RangesComputed
    /\ _batchSize = 6
    /\ numCores = 4
    /\ _decodeThreads._count = 3
    /\ _decodeThreads._startInds[2] = 4
    /\ _decodeThreads._endInds[2] = 6

====
